---- MODULE Spec2Model ----
(***************************************************************************)
(* utl serialization: serialize() writes an object graph into a flat       *)
(* buffer, replacing pointers by offsets; deserialize() rebases the        *)
(* offsets of a loaded buffer into pointers, in place.                     *)
(*                                                                         *)
(* Memory is word addressed: a scalar, a pointer, a bool, a char and an    *)
(* offset_t each take one word, so every alignment is one word.  offset_t  *)
(* is OffsetBits wide and its arithmetic wraps.  The recursion of the      *)
(* handlers is an explicit stack of calls still to make, in call order.    *)
(***************************************************************************)
EXTENDS Integers, Sequences, FiniteSets, TLC

\* ------------------------------------------------------------------ bounds
OffsetBits == 5
NumNodes == 2
MaxElems == 2
MaxStrLen == 10

\* --------------------------------------------------------------- constants
NullPtr == 0

\* std::numeric_limits<offset_t>::max(), the null sentinel
Sentinel == 2 ^ OffsetBits - 1

\* offset_t arithmetic
Mod(n) == n % (2 ^ OffsetBits)

\* the longest buffer whose size is an offset_t value
BufCap == 2 ^ OffsetBits - 1

\* ------------------------------------------------------------------- types
\* The types serialize<T> and deserialize<T> are instantiated with:
\*   struct Elem { Node* ref; };
\*   struct Node { Node* weak; utl::unique_ptr<Node> next; };
\*   struct Doc  { int val; Elem inner; utl::unique_ptr<Node> head, tail;
\*                 Elem* wel; utl::string str; utl::vector<Elem> vec; };
\*   struct Bag  { utl::vector<Elem> vec; };
Kind(ty) ==
  CASE ty = "int" -> "scalar"
    [] ty \in {"Node*", "Elem*"} -> "ptr"
    [] ty = "unique_ptr<Node>" -> "uptr"
    [] ty = "vector<Elem>" -> "vec"
    [] ty = "string" -> "str"
    [] ty \in {"Node", "Elem", "Doc", "Bag"} -> "agg"

\* T of unique_ptr<T>, vector<T>
Pointee(ty) ==
  CASE ty = "unique_ptr<Node>" -> "Node"
    [] ty = "vector<Elem>" -> "Elem"

\* utl::unique_ptr<T>: el_, self_allocated_
UpEl == 0
UpSelfAllocated == 1

\* utl::vector<T>: el_, used_size_, allocated_size_, self_allocated_
VecEl == 0
VecUsedSize == 1
VecAllocatedSize == 2
VecSelfAllocated == 3

\* utl::string: is_short_, then h_.self_allocated_, h_.size_, h_.ptr_ or the
\* inline characters s_
StrIsShort == 0
StrSelfAllocated == 1
StrSize == 2
StrPtr == 3

\* what for_each_ptr_field enumerates: each member's offset and type, in
\* declaration order
Fields(ty) ==
  CASE ty = "Elem" -> << [off |-> 0, ty |-> "Node*"] >>
    [] ty = "Node" -> << [off |-> 0, ty |-> "Node*"],
                         [off |-> 1, ty |-> "unique_ptr<Node>"] >>
    [] ty = "Doc" -> << [off |-> 0, ty |-> "int"],
                        [off |-> 1, ty |-> "Elem"],
                        [off |-> 2, ty |-> "unique_ptr<Node>"],
                        [off |-> 4, ty |-> "unique_ptr<Node>"],
                        [off |-> 6, ty |-> "Elem*"],
                        [off |-> 7, ty |-> "string"],
                        [off |-> 11, ty |-> "vector<Elem>"] >>
    [] ty = "Bag" -> << [off |-> 0, ty |-> "vector<Elem>"] >>

\* sizeof(T), in words
SizeOf(ty) ==
  CASE ty \in {"int", "Node*", "Elem*", "Elem"} -> 1
    [] ty = "unique_ptr<Node>" -> 2
    [] ty = "Node" -> 3
    [] ty \in {"string", "vector<Elem>", "Bag"} -> 4
    [] ty = "Doc" -> 15

\* std::alignment_of_v<T>, in words
AlignOf(ty) == 1

\* the characters a short string holds inline
InlineCap == SizeOf("string") - 1

\* ------------------------------------------------------- the source memory
\* Addresses lie above every offset, so that a raw address left in a slot is
\* told from an offset.
HeapBase == 2 ^ OffsetBits
RootAddr == HeapBase
NodeAddr(i) == RootAddr + SizeOf("Doc") + (i - 1) * SizeOf("Node")
VecAddr == NodeAddr(NumNodes + 1)
StrAddr == VecAddr + MaxElems * SizeOf("Elem")
\* where the buffer is loaded for deserialize (from_)
FromAddr == StrAddr + MaxStrLen
Addrs == HeapBase .. (FromAddr - 1)

HeapNodes == {NodeAddr(i) : i \in 1 .. NumNodes}

VARIABLES
  mem,       \* the source memory: address -> word
  rootType,  \* T of serialize(Target&, T&)
  pc,        \* where the run is
  buf,       \* the byte target's buffer (buf_), word o at buf[o + 1]
  offsets,   \* serialization_context::offsets_
  pending,   \* serialization_context::pending_
  stack,     \* the calls still to make, next first
  pi,        \* the index of the pending loop
  diag,      \* the dangling pointer warnings printed
  to,        \* deserialization_context::to_ (NullPtr: none)
  trail,     \* history: the handler calls made by serialize
  writes,    \* history: the payload writes (source, start, size)
  patches,   \* history: the position writes (pos, val, phase)
  dtrail,    \* history: the pointer slots deserialize visited
  rewritten  \* history: the buffer positions deserialize stored to

vars == << mem, rootType, pc, buf, offsets, pending, stack, pi, diag, to,
           trail, writes, patches, dtrail, rewritten >>

\* ------------------------------------------------------------ input graphs
Word(a, v) == a :> v

\* a Node at address n
NodeWords(n, weak, next) ==
  Word(n, weak) @@ Word(n + 1 + UpEl, next)
    @@ Word(n + 1 + UpSelfAllocated, IF next = NullPtr THEN 0 ELSE 1)

\* a utl::unique_ptr<Node> at address a
UniquePtrWords(a, el) ==
  Word(a + UpEl, el) @@ Word(a + UpSelfAllocated, IF el = NullPtr THEN 0 ELSE 1)

\* character i of the test string
CharAt(i) == 65 + i

\* a utl::string of length n at address a: inline up to InlineCap, else on
\* the heap at StrAddr
StringWords(a, n) ==
  IF n <= InlineCap
  THEN Word(a + StrIsShort, 1)
         @@ [x \in (a + 1) .. (a + InlineCap) |->
               IF x - a <= n THEN CharAt(x - a - 1) ELSE 0]
  ELSE Word(a + StrIsShort, 0) @@ Word(a + StrSelfAllocated, 1)
         @@ Word(a + StrSize, n) @@ Word(a + StrPtr, StrAddr)
         @@ [x \in StrAddr .. (StrAddr + n - 1) |-> CharAt(x - StrAddr)]

\* a utl::vector<Elem> at address a holding the elements refs (el = NullPtr:
\* never allocated)
VectorWords(a, el, refs) ==
  Word(a + VecEl, el) @@ Word(a + VecUsedSize, Len(refs))
    @@ Word(a + VecAllocatedSize, IF el = NullPtr THEN 0 ELSE MaxElems)
    @@ Word(a + VecSelfAllocated, IF el = NullPtr THEN 0 ELSE 1)
    @@ [x \in VecAddr .. (VecAddr + Len(refs) - 1) |-> refs[x - VecAddr + 1]]

Fill(f) == [a \in Addrs |-> IF a \in DOMAIN f THEN f[a] ELSE 0]

RECURSIVE Merge(_, _)
Merge(fs, n) == IF n = 0 THEN << >> ELSE Merge(fs, n - 1) @@ fs[n]

\* Graphs of Nodes rooted in a Node: the root and NumNodes - 1 heap nodes,
\* every weak and every owning pointer null or any of these nodes.
NodeGraphNodes == {RootAddr} \cup {NodeAddr(i) : i \in 1 .. (NumNodes - 1)}

NodeGraphs ==
  { Fill(Merge([i \in 1 .. NumNodes |->
                  LET n == IF i = 1 THEN RootAddr ELSE NodeAddr(i - 1)
                  IN NodeWords(n, wk[n], nx[n])], NumNodes)) :
      wk \in [NodeGraphNodes -> {NullPtr} \cup NodeGraphNodes],
      nx \in [NodeGraphNodes -> {NullPtr} \cup NodeGraphNodes] }

\* the heap nodes of a Doc: node i weakly points at nothing, itself or the
\* first node, and owns nothing or node i + 1
ChainWords(wk, nx) ==
  Merge([i \in 1 .. NumNodes |-> NodeWords(NodeAddr(i), wk[i], nx[i])],
        NumNodes)

Chains ==
  { ChainWords(wk, nx) :
      wk \in { f \in [1 .. NumNodes -> {NullPtr} \cup HeapNodes] :
                 \A i \in 1 .. NumNodes :
                   f[i] \in {NullPtr, NodeAddr(i), NodeAddr(1)} },
      nx \in { f \in [1 .. NumNodes -> {NullPtr} \cup HeapNodes] :
                 \A i \in 1 .. NumNodes :
                   f[i] \in {NullPtr} \cup
                     (IF i < NumNodes THEN {NodeAddr(i + 1)} ELSE {}) } }

DocWords(val, ref, head, tail, wel, slen, vel, refs) ==
  Word(RootAddr, val) @@ Word(RootAddr + 1, ref)
    @@ UniquePtrWords(RootAddr + 2, head) @@ UniquePtrWords(RootAddr + 4, tail)
    @@ Word(RootAddr + 6, wel) @@ StringWords(RootAddr + 7, slen)
    @@ VectorWords(RootAddr + 11, vel, refs)

\* Docs that vary their pointers: no string payload, no vector
PointerDocs ==
  { Fill(DocWords(0, ref, head, tail, NullPtr, 0, NullPtr, << >>) @@ ch) :
      ref \in {NullPtr} \cup HeapNodes,
      head \in {NullPtr} \cup HeapNodes,
      tail \in {NullPtr} \cup HeapNodes,
      ch \in Chains }

StrLens == {0, InlineCap, InlineCap + 1, MaxStrLen}

VecContents ==
  UNION { [1 .. n -> {NullPtr, NodeAddr(1)}] : n \in 0 .. MaxElems }

\* Docs that vary their containers: the owned nodes are a chain from head
ContainerDocs ==
  { Fill(DocWords(val, ref, head, NullPtr, wel, slen, vel,
                  IF vel = NullPtr THEN << >> ELSE refs)
           @@ ChainWords([i \in 1 .. NumNodes |-> NullPtr],
                         [i \in 1 .. NumNodes |->
                            IF i < nlen THEN NodeAddr(i + 1) ELSE NullPtr])) :
      val \in {0, 1},
      ref \in {NullPtr, NodeAddr(1)},
      head \in {NullPtr, NodeAddr(1)},
      nlen \in 1 .. NumNodes,
      wel \in {NullPtr, VecAddr},
      slen \in StrLens,
      vel \in {NullPtr, VecAddr},
      refs \in VecContents }

\* Bags: the vector never allocated, or allocated and holding up to MaxElems
\* elements
Bags ==
  { Fill(VectorWords(RootAddr, vel, IF vel = NullPtr THEN << >> ELSE refs)) :
      vel \in {NullPtr, VecAddr},
      refs \in VecContents }

Init ==
  /\ \/ rootType = "Node" /\ mem \in NodeGraphs
     \/ rootType = "Doc" /\ mem \in PointerDocs \cup ContainerDocs
     \/ rootType = "Bag" /\ mem \in Bags
  /\ pc = "start"
  /\ buf = << >>
  /\ offsets = << >>
  /\ pending = << >>
  /\ stack = << >>
  /\ pi = 1
  /\ diag = << >>
  /\ to = NullPtr
  /\ trail = << >>
  /\ writes = << >>
  /\ patches = << >>
  /\ dtrail = << >>
  /\ rewritten = {}

\* ---------------------------------------------------------- the byte target
AlignUp(n, alignment) ==
  IF alignment <= 1 THEN n
  ELSE ((n + alignment - 1) \div alignment) * alignment

\* buf::write(ptr, size, alignment): the buffer after appending, and the
\* start offset it returns
BufAppend(b, data, alignment) ==
  b \o [i \in 1 .. (AlignUp(Len(b), alignment) - Len(b)) |-> 0] \o data

BufStart(b, alignment) == Mod(AlignUp(Len(b), alignment))

\* buf::write(pos, val)
BufPatch(b, pos, val) == [b EXCEPT ![pos + 1] = val]

\* whether the buffer can take size more words
Fits(b, size, alignment) == AlignUp(Len(b), alignment) + size <= BufCap

\* the size words of source memory at ptr
Bytes(ptr, size) == [i \in 1 .. size |-> mem[ptr + i - 1]]

\* ---------------------------------------------------------------- serialize
Top == Head(stack)

Call(ty, at, pos, anc) == [ty |-> ty, at |-> at, pos |-> pos, anc |-> anc]

Visit(t) == [ty |-> t.ty, at |-> t.at, pos |-> t.pos, anc |-> t.anc,
             reg |-> offsets]

\* where serialize(Target&, T&) is once the calls left are stk
AfterWalk(stk, pend) ==
  IF stk # << >> THEN "walk"
  ELSE IF pend = << >> THEN "encoded" ELSE "fixup"

Patch(pos, val, phase) == [pos |-> pos, val |-> val, phase |-> phase]

\* a registration that is lost
RegisterSkipped(reg, ptr, start) == reg

\* offsets_[ptr] = start
Register(reg, ptr, start) ==
  [a \in DOMAIN reg \cup {ptr} |-> IF a = ptr THEN start ELSE reg[a]]

\* a serialize(Target&, T&) that registers the root it writes
SerializeRootRegistered ==
  /\ pc = "start"
  /\ Fits(buf, SizeOf(rootType), AlignOf(rootType))
  /\ buf' = BufAppend(buf, Bytes(RootAddr, SizeOf(rootType)), AlignOf(rootType))
  /\ stack' = << Call(rootType, RootAddr, BufStart(buf, AlignOf(rootType)),
                      << >>) >>
  /\ writes' = Append(writes, [src |-> RootAddr,
                               start |-> BufStart(buf, AlignOf(rootType)),
                               size |-> SizeOf(rootType), by |-> "root"])
  /\ offsets' = Register(offsets, RootAddr, BufStart(buf, AlignOf(rootType)))
  /\ pc' = "walk"
  /\ UNCHANGED << mem, rootType, pending, pi, diag, to, trail, patches,
                  dtrail, rewritten >>

\* serialize(Target&, T&): the root's bytes are written and the traversal
\* starts at the offset the write returned
SerializeRoot ==
  /\ pc = "start"
  /\ Fits(buf, SizeOf(rootType), AlignOf(rootType))
  /\ LET start == BufStart(buf, AlignOf(rootType))
     IN /\ buf' = BufAppend(buf, Bytes(RootAddr, SizeOf(rootType)),
                            AlignOf(rootType))
        /\ stack' = << Call(rootType, RootAddr, start, << >>) >>
        /\ writes' = Append(writes, [src |-> RootAddr, start |-> start,
                                     size |-> SizeOf(rootType), by |-> "root"])
  /\ pc' = "walk"
  /\ UNCHANGED << mem, rootType, offsets, pending, pi, diag, to, trail,
                  patches, dtrail, rewritten >>

\* serialize(Ctx&, T const*, offset_t), T an aggregate: every member, at
\* pos + member_offset
SerializeAggregate ==
  /\ pc = "walk" /\ Kind(Top.ty) = "agg"
  /\ LET fs == Fields(Top.ty)
     IN stack' = [i \in 1 .. Len(fs) |->
                    Call(fs[i].ty, Top.at + fs[i].off,
                         Mod(Top.pos + fs[i].off), Top.anc)] \o Tail(stack)
  /\ trail' = Append(trail, Visit(Top))
  /\ UNCHANGED << mem, rootType, pc, buf, offsets, pending, pi, diag, to,
                  writes, patches, dtrail, rewritten >>

\* serialize(Ctx&, T const*, offset_t), T a scalar that is no pointer
SerializeScalar ==
  /\ pc = "walk" /\ Kind(Top.ty) = "scalar"
  /\ stack' = Tail(stack)
  /\ pc' = AfterWalk(stack', pending)
  /\ trail' = Append(trail, Visit(Top))
  /\ UNCHANGED << mem, rootType, buf, offsets, pending, pi, diag, to,
                  writes, patches, dtrail, rewritten >>

\* whether the pointer handler finds ptr in offsets_
Registered(reg, ptr) == ptr \in DOMAIN reg

\* pending_offset{*origin, pos}
PendingOffset(ptr, pos) == [origin_ptr |-> ptr, pos |-> pos]

\* serialize(Ctx&, T const*, offset_t), T a pointer: the sentinel for null,
\* the registered offset, or a pending offset
SerializePointer ==
  /\ pc = "walk" /\ Kind(Top.ty) = "ptr"
  /\ LET ptr == mem[Top.at]
     IN IF ptr = NullPtr
        THEN /\ buf' = BufPatch(buf, Top.pos, Sentinel)
             /\ patches' = Append(patches, Patch(Top.pos, Sentinel, "walk"))
             /\ pending' = pending
        ELSE IF Registered(offsets, ptr)
        THEN /\ buf' = BufPatch(buf, Top.pos, offsets[ptr])
             /\ patches' = Append(patches, Patch(Top.pos, offsets[ptr], "walk"))
             /\ pending' = pending
        ELSE /\ pending' = Append(pending, PendingOffset(ptr, Top.pos))
             /\ UNCHANGED << buf, patches >>
  /\ stack' = Tail(stack)
  /\ pc' = AfterWalk(stack', pending')
  /\ trail' = Append(trail, Visit(Top))
  /\ UNCHANGED << mem, rootType, offsets, pi, diag, to, writes, dtrail,
                  rewritten >>

\* serialize(Ctx&, utl::vector<T> const*, offset_t)
SerializeVector ==
  /\ pc = "walk" /\ Kind(Top.ty) = "vec"
  /\ LET T == Pointee(Top.ty)
         el == mem[Top.at + VecEl]
         used == mem[Top.at + VecUsedSize]
         size == SizeOf(T) * used
         start == IF el # NullPtr THEN BufStart(buf, AlignOf(T)) ELSE Sentinel
         b1 == IF el # NullPtr THEN BufAppend(buf, Bytes(el, size), AlignOf(T))
               ELSE buf
         b2 == BufPatch(b1, Mod(Top.pos + VecEl), start)
         b3 == BufPatch(b2, Mod(Top.pos + VecAllocatedSize), used)
     IN /\ el # NullPtr => Fits(buf, size, AlignOf(T))
        /\ buf' = BufPatch(b3, Mod(Top.pos + VecSelfAllocated), 0)
        /\ patches' = patches \o
             << Patch(Mod(Top.pos + VecEl), start, "walk"),
                Patch(Mod(Top.pos + VecAllocatedSize), used, "walk"),
                Patch(Mod(Top.pos + VecSelfAllocated), 0, "walk") >>
        /\ writes' = IF el # NullPtr
                     THEN Append(writes, [src |-> el, start |-> start,
                                          size |-> size, by |-> "vec"])
                     ELSE writes
        /\ stack' = (IF el # NullPtr
                     THEN [i \in 1 .. used |->
                             Call(T, el + (i - 1) * SizeOf(T),
                                  Mod(start + (i - 1) * SizeOf(T)), Top.anc)]
                     ELSE << >>) \o Tail(stack)
  /\ pc' = AfterWalk(stack', pending)
  /\ trail' = Append(trail, Visit(Top))
  /\ UNCHANGED << mem, rootType, offsets, pending, pi, diag, to, dtrail,
                  rewritten >>

\* serialize(Ctx&, utl::string const*, offset_t)
SerializeString ==
  /\ pc = "walk" /\ Kind(Top.ty) = "str"
  /\ IF mem[Top.at + StrIsShort] = 1
     THEN UNCHANGED << buf, patches, writes >>
     ELSE LET data == mem[Top.at + StrPtr]
              size == mem[Top.at + StrSize]
              start == BufStart(buf, 1)
              b1 == BufAppend(buf, Bytes(data, size), 1)
              b2 == BufPatch(b1, Mod(Top.pos + StrPtr), start)
          IN /\ Fits(buf, size, 1)
             /\ buf' = BufPatch(b2, Mod(Top.pos + StrSelfAllocated), 0)
             /\ patches' = patches \o
                  << Patch(Mod(Top.pos + StrPtr), start, "walk"),
                     Patch(Mod(Top.pos + StrSelfAllocated), 0, "walk") >>
             /\ writes' = Append(writes, [src |-> data, start |-> start,
                                          size |-> size, by |-> "str"])
  /\ stack' = Tail(stack)
  /\ pc' = AfterWalk(stack', pending)
  /\ trail' = Append(trail, Visit(Top))
  /\ UNCHANGED << mem, rootType, offsets, pending, pi, diag, to, dtrail,
                  rewritten >>

\* serialize(Ctx&, utl::unique_ptr<T> const*, offset_t): the pointee is
\* written, registered, then visited
SerializeUniquePtr ==
  /\ pc = "walk" /\ Kind(Top.ty) = "uptr"
  /\ LET T == Pointee(Top.ty)
         el == mem[Top.at + UpEl]
         start == IF el # NullPtr THEN BufStart(buf, AlignOf(T)) ELSE Sentinel
         b1 == IF el # NullPtr
               THEN BufAppend(buf, Bytes(el, SizeOf(T)), AlignOf(T))
               ELSE buf
         b2 == BufPatch(b1, Mod(Top.pos + UpEl), start)
     IN /\ el # NullPtr => Fits(buf, SizeOf(T), AlignOf(T))
        /\ buf' = BufPatch(b2, Mod(Top.pos + UpSelfAllocated), 0)
        /\ patches' = patches \o
             << Patch(Mod(Top.pos + UpEl), start, "walk"),
                Patch(Mod(Top.pos + UpSelfAllocated), 0, "walk") >>
        /\ writes' = IF el # NullPtr
                     THEN Append(writes, [src |-> el, start |-> start,
                                          size |-> SizeOf(T), by |-> "uptr"])
                     ELSE writes
        /\ offsets' = IF el # NullPtr THEN Register(offsets, el, start)
                      ELSE offsets
        /\ stack' = (IF el # NullPtr
                     THEN << Call(T, el, start,
                                  << [ptr |-> el, start |-> start] >> \o Top.anc) >>
                     ELSE << >>) \o Tail(stack)
  /\ pc' = AfterWalk(stack', pending)
  /\ trail' = Append(trail, Visit(Top))
  /\ UNCHANGED << mem, rootType, pending, pi, diag, to, dtrail, rewritten >>

\* the words the next handler call appends to the buffer
PayloadSize(t) ==
  CASE Kind(t.ty) = "uptr" ->
         IF mem[t.at + UpEl] # NullPtr THEN SizeOf(Pointee(t.ty)) ELSE 0
    [] Kind(t.ty) = "vec" ->
         IF mem[t.at + VecEl] # NullPtr
         THEN SizeOf(Pointee(t.ty)) * mem[t.at + VecUsedSize] ELSE 0
    [] Kind(t.ty) = "str" ->
         IF mem[t.at + StrIsShort] = 1 THEN 0 ELSE mem[t.at + StrSize]
    [] OTHER -> 0

\* the write does not fit the bounded buffer: the run ends for lack of memory
Exhaust ==
  /\ pc = "walk"
  /\ ~Fits(buf, PayloadSize(Top), 1)
  /\ pc' = "exhausted"
  /\ UNCHANGED << mem, rootType, buf, offsets, pending, stack, pi, diag, to,
                  trail, writes, patches, dtrail, rewritten >>

\* a loop over pending_ that nulls the slot of a dangling pointer
ResolvedNulled(b, reg, p) ==
  IF Registered(reg, p.origin_ptr) THEN BufPatch(b, p.pos, reg[p.origin_ptr])
  ELSE BufPatch(b, p.pos, Sentinel)

\* a loop over pending_ that patches nothing
ResolvedNothing(b, reg, p) == b

\* the buffer after the loop over pending_ has handled p
Resolved(b, reg, p) ==
  IF Registered(reg, p.origin_ptr) THEN BufPatch(b, p.pos, reg[p.origin_ptr])
  ELSE b

\* serialize(Target&, T&), one turn of the loop over pending_
ResolvePending ==
  /\ pc = "fixup"
  /\ LET p == pending[pi]
     IN /\ buf' = Resolved(buf, offsets, p)
        /\ IF Registered(offsets, p.origin_ptr)
           THEN /\ patches' = Append(patches,
                                  Patch(p.pos, offsets[p.origin_ptr], "fixup"))
                /\ diag' = diag
           ELSE /\ diag' = Append(diag, [origin_ptr |-> p.origin_ptr,
                                         pos |-> p.pos])
                /\ patches' = patches
  /\ pi' = pi + 1
  /\ pc' = IF pi = Len(pending) THEN "encoded" ELSE "fixup"
  /\ UNCHANGED << mem, rootType, offsets, pending, stack, to, trail, writes,
                  dtrail, rewritten >>

Serialize ==
  \/ SerializeRoot
  \/ SerializeAggregate
  \/ SerializeScalar
  \/ SerializePointer
  \/ SerializeVector
  \/ SerializeString
  \/ SerializeUniquePtr
  \/ Exhaust
  \/ ResolvePending

\* -------------------------------------------------------------- deserialize
\* the word of the loaded buffer at address a
Load(a) == buf[a - FromAddr + 1]

Store(b, a, v) == [b EXCEPT ![a - FromAddr + 1] = v]

\* a range check that lets the offset one past the end through
OutOfRangeInclusive(offset) ==
  /\ offset # Sentinel
  /\ to # NullPtr
  /\ ~(offset <= Mod(to - FromAddr))

\* deserialization_context::deserialize: verify(offset < to_ - from_) fails.
\* The slot is read at pointer width.
OutOfRange(offset) ==
  /\ offset # Sentinel
  /\ to # NullPtr
  /\ ~(offset < Mod(to - FromAddr))

\* deserialization_context::deserialize: the pointer it returns
Rebase(offset) == IF offset = Sentinel THEN NullPtr ELSE FromAddr + offset

AfterCalls(stk) == IF stk # << >> THEN "decode" ELSE "decoded"

Slot(a) == [pos |-> a - FromAddr, val |-> Load(a)]

\* verify throws: decoding stops where it is
Throw ==
  /\ pc' = "failed"
  /\ UNCHANGED << buf, stack, rewritten >>

\* deserialize(uint8_t* from, uint8_t* to): the buffer is decoded where it
\* lies, with no upper bound, with its end or with the end of the root
DeserializeRoot ==
  /\ pc = "encoded"
  /\ to' \in {NullPtr, FromAddr + Len(buf), FromAddr + SizeOf(rootType)}
  /\ stack' = << Call(rootType, FromAddr, 0, << >>) >>
  /\ pc' = "decode"
  /\ UNCHANGED << mem, rootType, buf, offsets, pending, pi, diag, trail,
                  writes, patches, dtrail, rewritten >>

\* deserialize(deserialization_context const&, T*), T an aggregate
DeserializeAggregate ==
  /\ pc = "decode" /\ Kind(Top.ty) = "agg" /\ Top.at # NullPtr
  /\ LET fs == Fields(Top.ty)
     IN stack' = [i \in 1 .. Len(fs) |->
                    Call(fs[i].ty, Top.at + fs[i].off, 0, << >>)]
                 \o Tail(stack)
  /\ UNCHANGED << mem, rootType, pc, buf, offsets, pending, pi, diag, to,
                  trail, writes, patches, dtrail, rewritten >>

\* deserialize(deserialization_context const&, T*), T an aggregate and el
\* null: for_each_ptr_field(*el) dereferences a null pointer.  The run
\* crashes, or goes on as if the members had not been touched.
DeserializeNullPointee ==
  /\ pc = "decode" /\ Kind(Top.ty) = "agg" /\ Top.at = NullPtr
  /\ \/ pc' = "crashed" /\ stack' = stack
     \/ stack' = Tail(stack) /\ pc' = AfterCalls(stack')
  /\ UNCHANGED << mem, rootType, buf, offsets, pending, pi, diag, to,
                  trail, writes, patches, dtrail, rewritten >>

\* deserialize(deserialization_context const&, T*), T a scalar that is no
\* pointer
DeserializeScalar ==
  /\ pc = "decode" /\ Kind(Top.ty) = "scalar"
  /\ stack' = Tail(stack)
  /\ pc' = AfterCalls(stack')
  /\ UNCHANGED << mem, rootType, buf, offsets, pending, pi, diag, to,
                  trail, writes, patches, dtrail, rewritten >>

\* deserialize(deserialization_context const&, T*), T a pointer
DeserializePointer ==
  /\ pc = "decode" /\ Kind(Top.ty) = "ptr"
  /\ dtrail' = Append(dtrail, Slot(Top.at))
  /\ IF OutOfRange(Load(Top.at))
     THEN Throw
     ELSE /\ buf' = Store(buf, Top.at, Rebase(Load(Top.at)))
          /\ rewritten' = rewritten \cup {Top.at - FromAddr}
          /\ stack' = Tail(stack)
          /\ pc' = AfterCalls(stack')
  /\ UNCHANGED << mem, rootType, offsets, pending, pi, diag, to, trail,
                  writes, patches >>

\* deserialize(deserialization_context const&, utl::vector<T>*)
DeserializeVector ==
  /\ pc = "decode" /\ Kind(Top.ty) = "vec"
  /\ dtrail' = Append(dtrail, Slot(Top.at + VecEl))
  /\ IF OutOfRange(Load(Top.at + VecEl))
     THEN Throw
     ELSE LET T == Pointee(Top.ty)
              el == Rebase(Load(Top.at + VecEl))
              used == Load(Top.at + VecUsedSize)
          IN /\ buf' = Store(buf, Top.at + VecEl, el)
             /\ rewritten' = rewritten \cup {Top.at + VecEl - FromAddr}
             /\ stack' = [i \in 1 .. used |->
                            Call(T, el + (i - 1) * SizeOf(T), 0, << >>)]
                         \o Tail(stack)
             /\ pc' = AfterCalls(stack')
  /\ UNCHANGED << mem, rootType, offsets, pending, pi, diag, to, trail,
                  writes, patches >>

\* deserialize(deserialization_context const&, utl::string*)
DeserializeString ==
  /\ pc = "decode" /\ Kind(Top.ty) = "str"
  /\ IF Load(Top.at + StrIsShort) = 1
     THEN /\ stack' = Tail(stack)
          /\ pc' = AfterCalls(stack')
          /\ UNCHANGED << buf, dtrail, rewritten >>
     ELSE /\ dtrail' = Append(dtrail, Slot(Top.at + StrPtr))
          /\ IF OutOfRange(Load(Top.at + StrPtr))
             THEN Throw
             ELSE /\ buf' = Store(buf, Top.at + StrPtr,
                                  Rebase(Load(Top.at + StrPtr)))
                  /\ rewritten' = rewritten \cup {Top.at + StrPtr - FromAddr}
                  /\ stack' = Tail(stack)
                  /\ pc' = AfterCalls(stack')
  /\ UNCHANGED << mem, rootType, offsets, pending, pi, diag, to, trail,
                  writes, patches >>

\* deserialize(deserialization_context const&, utl::unique_ptr<T>*): the
\* pointer is rebased and the pointee visited, null or not
DeserializeUniquePtr ==
  /\ pc = "decode" /\ Kind(Top.ty) = "uptr"
  /\ dtrail' = Append(dtrail, Slot(Top.at + UpEl))
  /\ IF OutOfRange(Load(Top.at + UpEl))
     THEN Throw
     ELSE LET el == Rebase(Load(Top.at + UpEl))
          IN /\ buf' = Store(buf, Top.at + UpEl, el)
             /\ rewritten' = rewritten \cup {Top.at + UpEl - FromAddr}
             /\ stack' = << Call(Pointee(Top.ty), el, 0, << >>) >>
                         \o Tail(stack)
             /\ pc' = "decode"
  /\ UNCHANGED << mem, rootType, offsets, pending, pi, diag, to, trail,
                  writes, patches >>

Deserialize ==
  \/ DeserializeRoot
  \/ DeserializeAggregate
  \/ DeserializeNullPointee
  \/ DeserializeScalar
  \/ DeserializePointer
  \/ DeserializeVector
  \/ DeserializeString
  \/ DeserializeUniquePtr

Next == Serialize \/ Deserialize

Spec == Init /\ [][Next]_vars

\* ------------------------------------------------------------------ claims
\* serialize has returned
Encoded == pc \in {"encoded", "decode", "decoded", "failed", "crashed"}

\* the handler calls of one kind, by their place in the trail
Visits(kind) == {i \in 1 .. Len(trail) : Kind(trail[i].ty) = kind}

\* the payload writes that copied the object at src
Copies(src) == {i \in 1 .. Len(writes) : writes[i].src = src}

\* the buffer word at offset pos
At(pos) == buf[pos + 1]

\* whether the decoded structure of type ty at offset p equals the source
\* object at address a: scalars, lengths, elements and characters equal, and
\* every pointer at a decoded copy of what it pointed at
RECURSIVE DeepEqual(_, _, _)
DeepEqual(ty, a, p) ==
  CASE Kind(ty) = "scalar" -> At(p) = mem[a]
    [] Kind(ty) = "ptr" ->
         IF mem[a] = NullPtr THEN At(p) = NullPtr
         ELSE \E i \in Copies(mem[a]) : At(p) = FromAddr + writes[i].start
    [] Kind(ty) = "uptr" ->
         IF mem[a + UpEl] = NullPtr THEN At(p + UpEl) = NullPtr
         ELSE /\ \E i \in Copies(mem[a + UpEl]) :
                   At(p + UpEl) = FromAddr + writes[i].start
              /\ DeepEqual(Pointee(ty), mem[a + UpEl],
                           At(p + UpEl) - FromAddr)
    [] Kind(ty) = "vec" ->
         /\ At(p + VecUsedSize) = mem[a + VecUsedSize]
         /\ \A i \in 1 .. mem[a + VecUsedSize] :
              DeepEqual(Pointee(ty),
                        mem[a + VecEl] + (i - 1) * SizeOf(Pointee(ty)),
                        At(p + VecEl) - FromAddr
                          + (i - 1) * SizeOf(Pointee(ty)))
    [] Kind(ty) = "str" ->
         IF mem[a + StrIsShort] = 1
         THEN \A k \in 0 .. InlineCap : At(p + k) = mem[a + k]
         ELSE /\ At(p + StrIsShort) = 0
              /\ At(p + StrSize) = mem[a + StrSize]
              /\ \A k \in 0 .. (mem[a + StrSize] - 1) :
                   At(At(p + StrPtr) - FromAddr + k) = mem[mem[a + StrPtr] + k]
    [] Kind(ty) = "agg" ->
         \A k \in 1 .. Len(Fields(ty)) :
           DeepEqual(Fields(ty)[k].ty, a + Fields(ty)[k].off,
                     p + Fields(ty)[k].off)

\* C1: for every graph whose non-null weak pointers all point at the pointee
\* of an owning pointer written in the same serialize (no pointer is left
\* dangling), deserialize of the buffer serialize produced ends and yields a
\* structure deeply equal to the input.
RoundTrip ==
  (pc \in {"decoded", "crashed"} /\ to = NullPtr /\ diag = << >>)
    => (pc = "decoded" /\ DeepEqual(rootType, RootAddr, 0))

\* a round trip that ends, ends deeply equal to its input
RoundTripWhenDecoded ==
  (pc = "decoded" /\ to = NullPtr /\ diag = << >>)
    => DeepEqual(rootType, RootAddr, 0)

\* A owns B and B owns A, A the root
TwoCycle ==
  /\ rootType = "Node"
  /\ mem[RootAddr + 1 + UpEl] = NodeAddr(1)
  /\ mem[NodeAddr(1) + 1 + UpEl] = RootAddr

\* C2: when A owns B and B owns A, serialize of A writes each node a bounded
\* number of times (A as the root and once more as B's pointee, B once as
\* A's pointee) and ends without running out of buffer.
CycleSafety ==
  TwoCycle =>
    /\ Cardinality(Copies(RootAddr)) <= 2
    /\ Cardinality(Copies(NodeAddr(1))) <= 2
    /\ pc # "exhausted"

\* the owning pointer fields serialize has visited that hold el
OwnersOf(el) == {i \in Visits("uptr") : mem[trail[i].at + UpEl] = el}

\* C3: when two distinct owning pointer fields hold the same non-null
\* address, after serialize both pointer slots hold the same offset and the
\* pointee was written once.
Deduplication ==
  pc = "encoded" =>
    \A i, j \in Visits("uptr") :
      (/\ trail[i].at # trail[j].at
       /\ mem[trail[i].at + UpEl] # NullPtr
       /\ mem[trail[i].at + UpEl] = mem[trail[j].at + UpEl])
        => /\ At(trail[i].pos + UpEl) = At(trail[j].pos + UpEl)
           /\ Cardinality(Copies(mem[trail[i].at + UpEl])) = 1

\* the pointer slot of a visited field, and whether the field is null
PtrSlot(v) ==
  CASE Kind(v.ty) = "ptr" -> v.pos
    [] Kind(v.ty) = "uptr" -> v.pos + UpEl
    [] Kind(v.ty) = "vec" -> v.pos + VecEl

PtrField(v) ==
  CASE Kind(v.ty) = "ptr" -> mem[v.at]
    [] Kind(v.ty) = "uptr" -> mem[v.at + UpEl]
    [] Kind(v.ty) = "vec" -> mem[v.at + VecEl]

NullVisits ==
  {i \in Visits("ptr") \cup Visits("uptr") \cup Visits("vec") :
     PtrField(trail[i]) = NullPtr}

\* a null field is encoded as the sentinel, with no payload
NullEncoding ==
  \A i \in NullVisits :
    /\ \E k \in 1 .. Len(patches) :
         patches[k] = Patch(PtrSlot(trail[i]), Sentinel, "walk")
    /\ pc \in {"walk", "fixup", "encoded"} => At(PtrSlot(trail[i])) = Sentinel
    /\ Copies(NullPtr) = {}

\* C4: a null owning pointer, a null weak pointer and a vector with a null
\* backing pointer are each encoded as the sentinel with no payload, and
\* deserialize of the field ends normally, without dereferencing the null
\* pointee, and leaves the field null.
NullInvariance ==
  /\ NullEncoding
  /\ pc # "crashed"
  /\ pc = "decoded" => \A i \in NullVisits : At(PtrSlot(trail[i])) = NullPtr

IsDangling(p) == ~Registered(offsets, p.origin_ptr)

\* the weak pointer call that recorded the pending offset p
RecordedBy(p) == {i \in Visits("ptr") : trail[i].pos = p.pos}

\* C5: when serialize has ended, every pending offset whose pointer is not
\* in the registry has exactly one warning naming that pointer and that
\* position, no write was made at the position, which still holds the raw
\* pointer copied from the source, and the loop went through to the end; no
\* warning names a registered pointer.
DanglingNonFatal ==
  /\ \A k \in 1 .. Len(diag) :
       /\ IsDangling(diag[k])
       /\ \E i \in 1 .. Len(pending) : pending[i] = diag[k]
  /\ pc = "fixup" => pi \in 1 .. Len(pending)
  /\ pc = "encoded" =>
       /\ pi = Len(pending) + 1
       /\ \A i \in 1 .. Len(pending) :
            IF IsDangling(pending[i])
            THEN /\ Cardinality({k \in 1 .. Len(diag) :
                                   diag[k] = pending[i]}) = 1
                 /\ \A k \in 1 .. Len(patches) :
                      patches[k].pos # pending[i].pos
                 /\ \A v \in RecordedBy(pending[i]) :
                      At(pending[i].pos) = mem[trail[v].at]
                 /\ RecordedBy(pending[i]) # {}
            ELSE \A k \in 1 .. Len(diag) : diag[k] # pending[i]

\* serialize has ended with a dangling pointer reported and another pending
\* offset resolved
DanglingReported ==
  /\ pc = "encoded"
  /\ \E i, j \in 1 .. Len(pending) :
       IsDangling(pending[i]) /\ ~IsDangling(pending[j])

\* whether the slot deserialize read fails the range check
Beyond(e) == to # NullPtr /\ e.val # Sentinel /\ e.val >= to - FromAddr

\* C6: with an upper bound, a pointer slot whose stored value is not the
\* sentinel and is at least to - from ends deserialize at that slot: it is
\* the last slot visited, it keeps its value, only the slots visited before
\* it were rewritten, and deserialize does not return; a sentinel, and any
\* value when there is no upper bound, raises no error.
DecodeRangeError ==
  /\ \A i \in 1 .. Len(dtrail) :
       IF Beyond(dtrail[i])
       THEN /\ i = Len(dtrail)
            /\ pc = "failed"
            /\ dtrail[i].pos \notin rewritten
            /\ At(dtrail[i].pos) = dtrail[i].val
       ELSE dtrail[i].pos \in rewritten
  /\ rewritten = {dtrail[i].pos :
                    i \in {j \in 1 .. Len(dtrail) : ~Beyond(dtrail[j])}}
  /\ pc = "failed" => Len(dtrail) > 0 /\ Beyond(dtrail[Len(dtrail)])
  /\ pc = "decoded" => \A i \in 1 .. Len(dtrail) : ~Beyond(dtrail[i])

\* deserialize has failed on an offset equal to to - from, after rewriting
\* another slot
RangeErrorRaised ==
  /\ pc = "failed"
  /\ dtrail[Len(dtrail)].val = to - FromAddr
  /\ rewritten # {}

\* the addresses of the elements of the root's vector
ElemAddrs == {VecAddr + j * SizeOf("Elem") : j \in 0 .. (MaxElems - 1)}

\* C8: the registry holds exactly the non-null pointees of the owning
\* pointer fields visited so far; the root and the vector elements are not
\* registered, so a weak pointer at the root or at an element that no owning
\* pointer holds ends serialize unpatched and reported as dangling.
RegistryPopulation ==
  /\ DOMAIN offsets =
       {mem[trail[i].at + UpEl] : i \in Visits("uptr")} \ {NullPtr}
  /\ pc = "encoded" =>
       \A i \in Visits("ptr") :
         (/\ mem[trail[i].at] \in {RootAddr} \cup ElemAddrs
          /\ OwnersOf(mem[trail[i].at]) = {})
           => /\ \A k \in 1 .. Len(patches) : patches[k].pos # trail[i].pos
              /\ At(trail[i].pos) = mem[trail[i].at]
              /\ \E k \in 1 .. Len(diag) :
                   diag[k] = [origin_ptr |-> mem[trail[i].at],
                              pos |-> trail[i].pos]

\* the root owns a child whose weak pointer points back at the root
RootTargetDangling ==
  /\ pc = "encoded"
  /\ offsets # << >>
  /\ \E i \in Visits("ptr") :
       mem[trail[i].at] = RootAddr /\ trail[i].anc # << >>

\* the start of the innermost enclosing owning pointer call that wrote t
RECURSIVE EnclosingStart(_, _)
EnclosingStart(anc, t) ==
  IF Head(anc).ptr = t THEN Head(anc).start
  ELSE EnclosingStart(Tail(anc), t)

Enclosing(v) == {v.anc[k].ptr : k \in 1 .. Len(v.anc)}

\* the weak pointer calls made inside the subtree of their own target
BackReferences ==
  {i \in Visits("ptr") : mem[trail[i].at] \in Enclosing(trail[i])}

\* C9: the owning pointer handler registers the pointee before any field of
\* the pointee is visited: every call made in the pointee's subtree finds the
\* pointee registered with its offset, and a weak pointer in the subtree that
\* points back at the pointee is patched with that offset when it is visited
\* and leaves no pending offset.
RegisterBeforeRecurse ==
  /\ \A i \in 1 .. Len(trail) :
       \A t \in Enclosing(trail[i]) :
         /\ Registered(trail[i].reg, t)
         /\ trail[i].reg[t] = EnclosingStart(trail[i].anc, t)
  /\ \A i \in BackReferences :
       /\ \E k \in 1 .. Len(patches) :
            patches[k] = Patch(trail[i].pos,
                               EnclosingStart(trail[i].anc, mem[trail[i].at]),
                               "walk")
       /\ \A k \in 1 .. Len(pending) : pending[k].pos # trail[i].pos

\* a weak pointer was visited inside the subtree of its own target
BackReferenceVisited == BackReferences # {}

\* the weak pointer calls that found their non-null target unregistered
Deferred ==
  {i \in Visits("ptr") :
     /\ mem[trail[i].at] # NullPtr
     /\ ~Registered(trail[i].reg, mem[trail[i].at])}

FixupPatches == SelectSeq(patches, LAMBDA x : x.phase = "fixup")

Handled == SubSeq(pending, 1, pi - 1)

\* C10: a non-null weak pointer visited while its target is unregistered
\* records exactly one pending offset (target, slot position) and writes
\* nothing; pending offsets are handled only after the traversal, each once
\* and in recorded order; and a slot whose target was registered later ends
\* holding the registered offset.
PendingFixups ==
  /\ \A i \in Deferred :
       /\ Cardinality({k \in 1 .. Len(pending) :
                         pending[k].pos = trail[i].pos}) = 1
       /\ \E k \in 1 .. Len(pending) :
            pending[k] = [origin_ptr |-> mem[trail[i].at],
                          pos |-> trail[i].pos]
       /\ \A k \in 1 .. Len(patches) :
            patches[k].pos = trail[i].pos => patches[k].phase = "fixup"
  /\ Len(pending) = Cardinality(Deferred)
  /\ pc = "walk" => pi = 1 /\ diag = << >> /\ FixupPatches = << >>
  /\ pc \in {"fixup", "encoded"} =>
       /\ stack = << >>
       /\ LET resolved == SelectSeq(Handled, LAMBDA p : ~IsDangling(p))
          IN /\ Len(FixupPatches) = Len(resolved)
             /\ \A k \in 1 .. Len(resolved) :
                  FixupPatches[k] =
                    Patch(resolved[k].pos, offsets[resolved[k].origin_ptr],
                          "fixup")
       /\ diag = SelectSeq(Handled, IsDangling)
  /\ pc = "encoded" =>
       /\ Handled = pending
       /\ \A k \in 1 .. Len(pending) :
            ~IsDangling(pending[k])
              => At(pending[k].pos) = offsets[pending[k].origin_ptr]

\* serialize has ended after resolving a pending offset whose target an
\* owning pointer registered later
FixupResolved ==
  /\ pc = "encoded"
  /\ \E k \in 1 .. Len(pending) : ~IsDangling(pending[k])

\* C11: in the buffer serialize produced from a graph that left no pointer
\* dangling, every payload start stored in a pointer slot is the sentinel or
\* is less than the length of the buffer, and deserialize with
\* to = from + that length raises no range error; also when the last write
\* was the empty payload of a vector whose el_ is not null.
OffsetsWithinBuffer ==
  (Encoded /\ diag = << >>) =>
    /\ \A i \in 1 .. Len(writes) :
         writes[i].by # "root" =>
           (writes[i].start = Sentinel \/ writes[i].start < Len(buf))
    /\ to = FromAddr + Len(buf) => pc # "failed"
====
